---------------------------- MODULE Spec2Model ----------------------------
(***************************************************************************)
(* AimThree: the gameplay core of src/src/Game.js and the Target class     *)
(* (the third file concatenated in src/src/main.js).                       *)
(*                                                                         *)
(* Numbers.  Lengths are in thousandths of a world unit, velocities in     *)
(* thousandths of a unit per second, times in milliseconds, directions in  *)
(* thousandths (a unit vector has length 1000), Math.random() draws in     *)
(* thousandths (0..999), angles in whole degrees, the score in points.     *)
(* Frame deltas are multiples of 10 ms, so that 29.4 * delta and           *)
(* 100 * delta are whole numbers of these units.                           *)
(***************************************************************************)
EXTENDS Integers, Sequences, FiniteSets, TLC

(***************************************************************************)
(* Bounds of the exploration.                                              *)
(***************************************************************************)
\* a frame of at least this many ms is a stall; the timer bounds how many
\* stalls a session holds, so only the shorter frames need a bound
Stall == 10000
\* frames shorter than a stall explored since construction
MaxFrames == 2
\* fire actions explored per session
MaxShots == 1
\* length of a raycast intersection list
MaxIntersects == 2

(***************************************************************************)
(* Program constants.                                                      *)
(***************************************************************************)
PlayerHeight == 1600
PlatformHalfHeight == 250
LandingBand == 1000
JumpForce == 10000
FallLimit == -10000
ArenaLimit == 19000
HitReward == 100
DefaultDuration == 60000
StartPlatformY == 2000
PlatformCount == 20
MaxHeight == 25000
MoveSpeed == 2
TargetRange == 8000
BaseAcceleration == 320

Modes == {"static", "tracking", "parkour"}

\* a THREE.Vector3
Vec(x, y, z) == [x |-> x, y |-> y, z |-> z]

\* JavaScript's null
Null == [null |-> TRUE]

\* division rounding toward zero, the fixed-point image of a float quotient
Trunc(a, b) == IF a >= 0 THEN a \div b ELSE -((-a) \div b)

\* a * b / c rounded toward zero (c > 0), the product never formed whole so
\* that it stays within TLC's integers
MulDiv(a, b, c) ==
    LET m == IF a >= 0 THEN a ELSE -a
        n == IF b >= 0 THEN b ELSE -b
        mag == (m \div c) * n + ((m % c) * n) \div c
    IN  IF (a >= 0) = (b >= 0) THEN mag ELSE -mag

\* the largest r in lo..hi with r * r <= n, by bisection
RECURSIVE rootBetween(_, _, _)
rootBetween(n, lo, hi) ==
    IF lo >= hi THEN lo
    ELSE LET mid == (lo + hi + 1) \div 2
         IN  IF mid * mid <= n THEN rootBetween(n, mid, hi)
             ELSE rootBetween(n, lo, mid - 1)

\* Math.sqrt, rounded down, of a number below 2^24
ISqrt(n) == rootBetween(n, 0, 4095)

\* Math.cos / Math.sin in thousandths, tabulated every 15 degrees
CosTable ==
    << 1000, 966, 866, 707, 500, 259, 0, -259, -500, -707, -866, -966,
       -1000, -966, -866, -707, -500, -259, 0, 259, 500, 707, 866, 966 >>
Cos(deg) == CosTable[((deg % 360) \div 15) + 1]
Sin(deg) == Cos(deg + 270)

VARIABLES
    isPlaying, isPaused, isGameOver,    \* session flags
    gameMode,                           \* 'static' | 'tracking' | 'parkour'
    gameDuration, timeLeft,             \* ms
    score, shotsFired, shotsHit,
    canJump,
    moveForward, moveBackward, moveLeft, moveRight, isSprinting,
    velocity,                           \* this.velocity
    cameraPosition,                     \* this.camera.position
    targets,                            \* this.targets, the pool
    parkourPlatforms, goalPlatform,
    isLocked,                           \* this.controls.isLocked
    lockRequested,                      \* a controls.lock() request in flight
    frames                              \* short frames run so far

flagVars == <<isPlaying, isPaused, isGameOver>>
statVars == <<score, shotsFired, shotsHit>>
moveVars == <<moveForward, moveBackward, moveLeft, moveRight, isSprinting>>
playerVars == <<velocity, cameraPosition, canJump>>
levelVars == <<parkourPlatforms, goalPlatform>>
lockVars == <<isLocked, lockRequested>>
vars == <<flagVars, gameMode, gameDuration, timeLeft, statVars, moveVars,
          playerVars, targets, levelVars, lockVars, frames>>

(***************************************************************************)
(* Inputs of the exploration.                                              *)
(***************************************************************************)
\* clock.getDelta(): a frame that follows at once, and two stalls
Deltas == {0, 20000, 50000}
\* data-time of the duration buttons
Durations == {20000}
\* event.code of the keys pressed
KeyCodes == {"Space"}
\* the camera's heading, in quarter turns
Yaws == {0}
\* the angle of the menu camera on its orbit
Orbits == {90}
\* Math.random() draws of spawnTarget: position, then direction
SpawnDraws == {<<500, 500, 500, 999, 500, 500>>, <<0, 0, 999, 500, 500, 0>>}
\* Math.random() draws of the new direction in Target.update
DirDraws == {<<0, 500, 500>>}
\* Math.random() draws of createParkourLevel, <<radius, angle>> per platform:
\* the tightest spiral ending beside the goal, and a wider one
LevelDraws ==
    {[i \in 1..PlatformCount |-> <<0, IF i <= 5 THEN 300 ELSE 800>>],
     [i \in 1..PlatformCount |-> <<500, 300>>]}

(***************************************************************************)
(* Target (src/src/main.js, lines 30-112).  A target is a record; the      *)
(* mesh's position and visibility are its position and isActive fields.    *)
(***************************************************************************)
\* new Target(scene)
NewTarget ==
    [isActive |-> FALSE, position |-> Vec(0, 0, 0),
     moveDirection |-> Vec(0, 0, 0), changeDirTimer |-> 0]

\* Vector3.normalize(): divideScalar(length() || 1)
normalize(v) ==
    LET len == ISqrt(v.x * v.x + v.y * v.y + v.z * v.z)
    IN  IF len = 0 THEN v
        ELSE Vec(Trunc(v.x * 1000, len), Trunc(v.y * 1000, len),
                 Trunc(v.z * 1000, len))

\* the vector of three Math.random() draws r, each mapped to (r - 0.5) * 2
randomDirection(r) ==
    normalize(Vec((r[1] - 500) * 2, (r[2] - 500) * 2, (r[3] - 500) * 2))

\* Target.setRandomDirection()
setRandomDirection(t, r) == [t EXCEPT !.moveDirection = randomDirection(r)]

\* Target.spawn(position)
spawn(t, position, r) ==
    setRandomDirection([t EXCEPT !.position = position, !.isActive = TRUE], r)

\* Target.despawn()
despawn(t) == [t EXCEPT !.isActive = FALSE]

\* Target.hit() without its despawn(): a hit that StaticHit must tell from
\* the program's
hitKeepsActive(t) == t

\* Target.hit()
hit(t) == despawn(t)

\* the bounce of Target.update: which direction components are negated
bounce(p, d) ==
    Vec(IF p.x > TargetRange \/ p.x < -TargetRange THEN -d.x ELSE d.x,
        IF p.y > TargetRange \/ p.y < 1000 THEN -d.y ELSE d.y,
        IF p.z > 0 \/ p.z < -TargetRange * 2 THEN -d.z ELSE d.z)

\* Vector3.lerp(v, 0.5)
lerpHalf(d, n) ==
    Vec(d.x + Trunc(n.x - d.x, 2), d.y + Trunc(n.y - d.y, 2),
        d.z + Trunc(n.z - d.z, 2))

\* Target.update without its test of the mode: an update that
\* UpdateOnlyTracking must tell from the program's
TargetUpdateAnyMode(t, delta, mode, r) ==
    IF ~t.isActive THEN t
    ELSE
      LET step == MoveSpeed * (delta \div 10)
          p == Vec(t.position.x + Trunc(t.moveDirection.x * step, 100),
                   t.position.y + Trunc(t.moveDirection.y * step, 100),
                   t.position.z + Trunc(t.moveDirection.z * step, 100))
          d == bounce(p, t.moveDirection)
          timer == t.changeDirTimer + delta
      IN  IF timer > 1000
          THEN [t EXCEPT !.position = p, !.changeDirTimer = 0,
                         !.moveDirection =
                             normalize(lerpHalf(d, randomDirection(r)))]
          ELSE [t EXCEPT !.position = p, !.changeDirTimer = timer,
                         !.moveDirection = d]

\* Target.update(delta, mode); r holds the three draws of the new direction
TargetUpdate(t, delta, mode, r) ==
    IF ~t.isActive THEN t
    ELSE IF mode # "tracking" THEN t
    ELSE
      LET step == MoveSpeed * (delta \div 10)
          p == Vec(t.position.x + Trunc(t.moveDirection.x * step, 100),
                   t.position.y + Trunc(t.moveDirection.y * step, 100),
                   t.position.z + Trunc(t.moveDirection.z * step, 100))
          d == bounce(p, t.moveDirection)
          timer == t.changeDirTimer + delta
      IN  IF timer > 1000
          THEN [t EXCEPT !.position = p, !.changeDirTimer = 0,
                         !.moveDirection =
                             normalize(lerpHalf(d, randomDirection(r)))]
          ELSE [t EXCEPT !.position = p, !.changeDirTimer = timer,
                         !.moveDirection = d]

(***************************************************************************)
(* The target pool and the parkour level of Game.                          *)
(***************************************************************************)
\* a find that never finds: spawnTarget then allocates at every spawn, which
\* PoolReuse must tell from the program's
findInactiveNone(ts) == 0

\* the index targets.find(t => !t.isActive) returns, 0 when it finds none
findInactive(ts) ==
    IF \E i \in 1..Len(ts) : ~ts[i].isActive
    THEN CHOOSE i \in 1..Len(ts) :
            ~ts[i].isActive /\ \A j \in 1..(i - 1) : ts[j].isActive
    ELSE 0

\* Game.spawnTarget(); r holds its six Math.random() draws
spawnTarget(ts, r) ==
    LET i == findInactive(ts)
        pool == IF i = 0 THEN Append(ts, NewTarget) ELSE ts
        k == IF i = 0 THEN Len(pool) ELSE i
        position == Vec((r[1] - 500) * 15, 1000 + r[2] * 4, -5000 - r[3] * 15)
    IN  [pool EXCEPT ![k] = spawn(pool[k], position, <<r[4], r[5], r[6]>>)]

\* targets.forEach(t => t.despawn()) despawning nothing: a reset of the pool
\* that OneTargetActive must tell from the program's
despawnAllNone(ts) == ts

\* targets.forEach(t => t.despawn())
despawnAll(ts) == [i \in 1..Len(ts) |-> despawn(ts[i])]

\* heightStep with the 25 of maxHeight spread over 25 steps, 1.0 each: a
\* step that BandsDisjoint must tell from the program's
HeightStepOfBand == MaxHeight \div (PlatformCount + 5)

HeightStep == MaxHeight \div PlatformCount

\* a platform mesh: its position, userData.platformBounds, userData.isGoal
Platform(x, y, z, width, depth, goal) ==
    [position |-> Vec(x, y, z),
     platformBounds |-> [width |-> width, depth |-> depth],
     isGoal |-> goal]

\* the value of `angle` after the i-th pass of createParkourLevel's loop;
\* rnd[j] = <<radius draw, angle draw>> of pass j
RECURSIVE angleAfter(_, _)
angleAfter(rnd, i) ==
    IF i = 0 THEN 0
    ELSE angleAfter(rnd, i - 1) + 36 + Trunc(rnd[i][2] * 30, 1000)

\* the i-th generated platform of createParkourLevel
generatedPlatform(rnd, i) ==
    LET linear == 1000 - Trunc(i * 400, PlatformCount)
        sizeFactor == IF linear > 600 THEN linear ELSE 600
        width == 3 * sizeFactor + 1500
        radius == 5000 + rnd[i][1] * 4
        angle == angleAfter(rnd, i)
    IN  Platform(Trunc(Cos(angle) * radius, 1000),
                 StartPlatformY + i * HeightStep,
                 Trunc(Sin(angle) * radius, 1000),
                 width, width, FALSE)

\* Game.createParkourLevel(): parkourPlatforms after its pushes
createdPlatforms(ps, rnd) ==
    (ps \o <<Platform(0, StartPlatformY, 0, 6000, 6000, FALSE)>>)
        \o [i \in 1..PlatformCount |-> generatedPlatform(rnd, i)]

\* createParkourLevel() with the goal at the height of the last platform,
\* not one step above it: a goal that LevelShape must tell from the program's
createdGoalOnLast(ps, rnd) ==
    LET all == createdPlatforms(ps, rnd)
    IN  Platform(0, all[Len(all)].position.y, 0, 5000, 5000, TRUE)

\* Game.createParkourLevel(): the goal platform, one step above the last
\* platform of parkourPlatforms
createdGoal(ps, rnd) ==
    LET all == createdPlatforms(ps, rnd)
    IN  Platform(0, all[Len(all)].position.y + HeightStep, 0, 5000, 5000, TRUE)

\* clearParkourLevel() then createParkourLevel(), as resetGame calls them:
\* the levels the draws of LevelDraws generate
GeneratedLevels ==
    {[parkourPlatforms |-> createdPlatforms(<<>>, rnd),
      goalPlatform |-> createdGoal(<<>>, rnd)] : rnd \in LevelDraws}

\* the point resetGame and the fall recovery put the player at, in parkour
ParkourSpawn == Vec(0, StartPlatformY + PlatformHalfHeight + PlayerHeight, 0)
\* the point resetGame puts the player at in the other modes
ArenaSpawn == Vec(0, PlayerHeight, 0)

(***************************************************************************)
(* Init: the state the Game constructor leaves (Game.js lines 18-28 and    *)
(* 100-120); PointerLockControls starts unlocked.                          *)
(***************************************************************************)
Init ==
    /\ isPlaying = FALSE /\ isPaused = FALSE /\ isGameOver = FALSE
    /\ gameMode = "static"
    /\ gameDuration = DefaultDuration /\ timeLeft = DefaultDuration
    /\ score = 0 /\ shotsFired = 0 /\ shotsHit = 0
    /\ canJump = FALSE
    /\ moveForward = FALSE /\ moveBackward = FALSE
    /\ moveLeft = FALSE /\ moveRight = FALSE /\ isSprinting = FALSE
    /\ velocity = Vec(0, 0, 0)
    /\ cameraPosition = Vec(0, PlayerHeight, 0)
    /\ targets = <<>>
    /\ parkourPlatforms = <<>> /\ goalPlatform = Null
    /\ isLocked = FALSE /\ lockRequested = FALSE
    /\ frames = 0

(***************************************************************************)
(* Session transitions.                                                    *)
(***************************************************************************)
\* resetGame without its two velocity.set(0, 0, 0) calls: a reset that
\* StartResets must tell from the program's
resetGameKeepsVelocity(mode) ==
    /\ score' = 0
    /\ timeLeft' = gameDuration
    /\ shotsFired' = 0
    /\ shotsHit' = 0
    /\ UNCHANGED velocity
    /\ IF mode = "parkour"
       THEN /\ \E level \in GeneratedLevels :
                  /\ parkourPlatforms' = level.parkourPlatforms
                  /\ goalPlatform' = level.goalPlatform
            /\ cameraPosition' = ParkourSpawn
            /\ UNCHANGED targets
       ELSE /\ \E r \in SpawnDraws :
                  targets' = spawnTarget(despawnAll(targets), r)
            /\ cameraPosition' = ArenaSpawn
            /\ UNCHANGED levelVars

\* resetGame without its clearParkourLevel(): createParkourLevel pushing onto
\* the platforms of the level before, a reset that LevelReplaced must tell
\* from the program's
resetGameNoClear(mode) ==
    /\ score' = 0
    /\ timeLeft' = gameDuration
    /\ shotsFired' = 0
    /\ shotsHit' = 0
    /\ IF mode = "parkour"
       THEN /\ \E rnd \in LevelDraws :
                  /\ parkourPlatforms' = createdPlatforms(parkourPlatforms, rnd)
                  /\ goalPlatform' = createdGoal(parkourPlatforms, rnd)
            /\ cameraPosition' = ParkourSpawn
            /\ velocity' = Vec(0, 0, 0)
            /\ UNCHANGED targets
       ELSE /\ \E r \in SpawnDraws :
                  targets' = spawnTarget(despawnAll(targets), r)
            /\ cameraPosition' = ArenaSpawn
            /\ velocity' = Vec(0, 0, 0)
            /\ UNCHANGED levelVars

\* resetGame without its `this.score = 0`: a reset that ScoreOfHits must tell
\* from the program's
resetGameKeepsScore(mode) ==
    /\ UNCHANGED score
    /\ timeLeft' = gameDuration
    /\ shotsFired' = 0
    /\ shotsHit' = 0
    /\ IF mode = "parkour"
       THEN /\ \E level \in GeneratedLevels :
                  /\ parkourPlatforms' = level.parkourPlatforms
                  /\ goalPlatform' = level.goalPlatform
            /\ cameraPosition' = ParkourSpawn
            /\ velocity' = Vec(0, 0, 0)
            /\ UNCHANGED targets
       ELSE /\ \E r \in SpawnDraws :
                  targets' = spawnTarget(despawnAll(targets), r)
            /\ cameraPosition' = ArenaSpawn
            /\ velocity' = Vec(0, 0, 0)
            /\ UNCHANGED levelVars

\* Game.resetGame() in mode `mode`, with the Math.random() draws of the
\* level or of the spawn
resetGame(mode) ==
    /\ score' = 0
    /\ timeLeft' = gameDuration
    /\ shotsFired' = 0
    /\ shotsHit' = 0
    /\ IF mode = "parkour"
       THEN /\ \E level \in GeneratedLevels :
                  /\ parkourPlatforms' = level.parkourPlatforms
                  /\ goalPlatform' = level.goalPlatform
            /\ cameraPosition' = ParkourSpawn
            /\ velocity' = Vec(0, 0, 0)
            /\ UNCHANGED targets
       ELSE /\ \E r \in SpawnDraws :
                  targets' = spawnTarget(despawnAll(targets), r)
            /\ cameraPosition' = ArenaSpawn
            /\ velocity' = Vec(0, 0, 0)
            /\ UNCHANGED levelVars

\* Game.startGame(mode)
startGame(mode) ==
    /\ gameMode' = mode
    /\ isPlaying' = TRUE
    /\ isPaused' = FALSE
    /\ isGameOver' = FALSE
    /\ resetGame(mode)
    /\ lockRequested' = TRUE
    /\ UNCHANGED <<gameDuration, canJump, moveVars, isLocked, frames>>

\* Game.retryGame()
retryGame == startGame(gameMode)

\* endGame without `this.isPlaying = false`: an end of session that
\* OneSessionState must tell from the program's
endGameStillPlaying ==
    /\ isPlaying' = TRUE
    /\ isGameOver' = TRUE

\* Game.endGame(): the flags it sets (the rest is sound and end-screen text)
endGame ==
    /\ isPlaying' = FALSE
    /\ isGameOver' = TRUE

\* winParkour without `this.isGameOver = true`: a win that GoalWin must tell
\* from the program's
winParkourNoGameOver ==
    /\ isPlaying' = FALSE
    /\ UNCHANGED isGameOver

\* Game.winParkour(): the flags it sets
winParkour ==
    /\ isPlaying' = FALSE
    /\ isGameOver' = TRUE

\* Game.pauseGame()
pauseGame == isPaused' = TRUE

\* the 'unlock' listener without its condition: a listener that
\* PauseTrigger must tell from the program's
onUnlockUnguarded ==
    /\ isLocked' = FALSE
    /\ isPaused' = TRUE
    /\ UNCHANGED <<isPlaying, isGameOver, gameMode, gameDuration, timeLeft,
                   statVars, moveVars, playerVars, targets, levelVars,
                   lockRequested, frames>>

\* the 'unlock' listener testing isPaused only: a listener that
\* UnlockAfterEnd must tell from the program's
onUnlockAfterEnd ==
    /\ isLocked' = FALSE
    /\ IF ~isPaused
       THEN pauseGame
       ELSE UNCHANGED isPaused
    /\ UNCHANGED <<isPlaying, isGameOver, gameMode, gameDuration, timeLeft,
                   statVars, moveVars, playerVars, targets, levelVars,
                   lockRequested, frames>>

\* the 'unlock' listener of the constructor, run when PointerLockControls
\* dispatches 'unlock' (it has then cleared isLocked)
onUnlock ==
    /\ isLocked' = FALSE
    /\ IF isPlaying /\ ~isPaused /\ ~isGameOver
       THEN pauseGame
       ELSE UNCHANGED isPaused
    /\ UNCHANGED <<isPlaying, isGameOver, gameMode, gameDuration, timeLeft,
                   statVars, moveVars, playerVars, targets, levelVars,
                   lockRequested, frames>>

\* PointerLockControls grants the lock a controls.lock() call asked for
onLock ==
    /\ lockRequested
    /\ isLocked' = TRUE
    /\ lockRequested' = FALSE
    /\ UNCHANGED <<flagVars, gameMode, gameDuration, timeLeft, statVars,
                   moveVars, playerVars, targets, levelVars, frames>>

\* Game.resumeGame()
resumeGame ==
    /\ isPaused' = FALSE
    /\ lockRequested' = TRUE
    /\ UNCHANGED <<isPlaying, isGameOver, gameMode, gameDuration, timeLeft,
                   statVars, moveVars, playerVars, targets, levelVars,
                   isLocked, frames>>

\* clearParkourLevel without `this.goalPlatform = null`: a clearing that
\* QuitToIdle must tell from the program's
clearParkourLevelKeepsGoal ==
    /\ parkourPlatforms' = <<>>
    /\ UNCHANGED goalPlatform

\* Game.clearParkourLevel()
clearParkourLevel ==
    /\ parkourPlatforms' = <<>>
    /\ goalPlatform' = Null

\* quitToMain zeroing the score and the shot counters as well: a quit that
\* CountersMonotone must tell from the program's
quitToMainClearsStats ==
    /\ isPlaying' = FALSE
    /\ isPaused' = FALSE
    /\ isGameOver' = FALSE
    /\ parkourPlatforms' = <<>>
    /\ goalPlatform' = Null
    /\ score' = 0 /\ shotsFired' = 0 /\ shotsHit' = 0
    /\ UNCHANGED <<gameMode, gameDuration, timeLeft, moveVars, playerVars,
                   targets, lockVars, frames>>

\* Game.quitToMain()
quitToMain ==
    /\ isPlaying' = FALSE
    /\ isPaused' = FALSE
    /\ isGameOver' = FALSE
    /\ clearParkourLevel
    /\ UNCHANGED <<gameMode, gameDuration, timeLeft, statVars, moveVars,
                   playerVars, targets, lockVars, frames>>

\* the click listener of the duration buttons
selectDuration(time) ==
    /\ gameDuration' = time
    /\ UNCHANGED <<flagVars, gameMode, timeLeft, statVars, moveVars,
                   playerVars, targets, levelVars, lockVars, frames>>

(***************************************************************************)
(* Input handlers.                                                         *)
(***************************************************************************)
\* what Raycaster.intersectObjects can return, nearest first: each entry is
\* the pool index of the Target the hit mesh belongs to (userData.target),
\* or 0 for a mesh that carries none
Intersections(ts) ==
    UNION {[1..n -> 0..Len(ts)] : n \in 0..MaxIntersects}

\* the first entry of the list that is an active target, 0 when none is
firstActive(ts, intersects) ==
    IF \E i \in 1..Len(intersects) :
          intersects[i] # 0 /\ ts[intersects[i]].isActive
    THEN LET i == CHOOSE i \in 1..Len(intersects) :
                    /\ intersects[i] # 0 /\ ts[intersects[i]].isActive
                    /\ \A j \in 1..(i - 1) :
                          intersects[j] = 0 \/ ~ts[intersects[j]].isActive
         IN  intersects[i]
    ELSE 0

\* onMouseDown counting a hit with every accepted shot (`this.shotsHit++`
\* beside `this.shotsFired++`): a handler that FireMiss must tell from the
\* program's
onMouseDownCountsHit(intersects) ==
    /\ shotsFired < MaxShots
    /\ IF ~isLocked THEN UNCHANGED <<statVars, targets>>
       ELSE IF isPaused \/ isGameOver THEN UNCHANGED <<statVars, targets>>
       ELSE
         /\ shotsFired' = shotsFired + 1
         /\ shotsHit' = shotsHit + 1
         /\ IF gameMode = "static" /\ firstActive(targets, intersects) # 0
            THEN LET k == firstActive(targets, intersects)
                 IN  /\ \E r \in SpawnDraws :
                           targets' =
                             spawnTarget([targets EXCEPT ![k] = hit(@)], r)
                     /\ score' = score + HitReward
            ELSE UNCHANGED <<score, targets>>
    /\ UNCHANGED <<flagVars, gameMode, gameDuration, timeLeft, moveVars,
                   playerVars, levelVars, lockVars, frames>>

\* onMouseDown without the `this.gameMode === 'static'` test around its hit
\* test: a handler that TrackingScore must tell from the program's
onMouseDownAnyMode(intersects) ==
    /\ shotsFired < MaxShots
    /\ IF ~isLocked THEN UNCHANGED <<statVars, targets>>
       ELSE IF isPaused \/ isGameOver THEN UNCHANGED <<statVars, targets>>
       ELSE
         /\ shotsFired' = shotsFired + 1
         /\ IF firstActive(targets, intersects) # 0
            THEN LET k == firstActive(targets, intersects)
                 IN  /\ \E r \in SpawnDraws :
                           targets' =
                             spawnTarget([targets EXCEPT ![k] = hit(@)], r)
                     /\ score' = score + HitReward
                     /\ shotsHit' = shotsHit + 1
            ELSE UNCHANGED <<score, shotsHit, targets>>
    /\ UNCHANGED <<flagVars, gameMode, gameDuration, timeLeft, moveVars,
                   playerVars, levelVars, lockVars, frames>>

\* Game.onMouseDown() without its test of isPaused and isGameOver: a fire
\* action that FireIgnored must tell from the program's
onMouseDownAnyState(intersects) ==
    /\ shotsFired < MaxShots
    /\ IF ~isLocked THEN UNCHANGED <<statVars, targets>>
       ELSE
         /\ shotsFired' = shotsFired + 1
         /\ IF gameMode = "static" /\ firstActive(targets, intersects) # 0
            THEN LET k == firstActive(targets, intersects)
                 IN  /\ \E r \in SpawnDraws :
                           targets' =
                             spawnTarget([targets EXCEPT ![k] = hit(@)], r)
                     /\ score' = score + HitReward
                     /\ shotsHit' = shotsHit + 1
            ELSE UNCHANGED <<score, shotsHit, targets>>
    /\ UNCHANGED <<flagVars, gameMode, gameDuration, timeLeft, moveVars,
                   playerVars, levelVars, lockVars, frames>>

\* Game.onMouseDown() without its shotsFired++: a fire action that
\* HitsWithinShots must tell from the program's
onMouseDownUncounted(intersects) ==
    /\ shotsFired < MaxShots
    /\ IF ~isLocked THEN UNCHANGED <<statVars, targets>>
       ELSE IF isPaused \/ isGameOver THEN UNCHANGED <<statVars, targets>>
       ELSE
         /\ UNCHANGED shotsFired
         /\ IF gameMode = "static" /\ firstActive(targets, intersects) # 0
            THEN LET k == firstActive(targets, intersects)
                 IN  /\ \E r \in SpawnDraws :
                           targets' =
                             spawnTarget([targets EXCEPT ![k] = hit(@)], r)
                     /\ score' = score + HitReward
                     /\ shotsHit' = shotsHit + 1
            ELSE UNCHANGED <<score, shotsHit, targets>>
    /\ UNCHANGED <<flagVars, gameMode, gameDuration, timeLeft, moveVars,
                   playerVars, levelVars, lockVars, frames>>

\* Game.onMouseDown(), the raycast returning intersects
onMouseDown(intersects) ==
    /\ shotsFired < MaxShots
    /\ IF ~isLocked THEN UNCHANGED <<statVars, targets>>
       ELSE IF isPaused \/ isGameOver THEN UNCHANGED <<statVars, targets>>
       ELSE
         /\ shotsFired' = shotsFired + 1
         /\ IF gameMode = "static" /\ firstActive(targets, intersects) # 0
            THEN LET k == firstActive(targets, intersects)
                 IN  /\ \E r \in SpawnDraws :
                           targets' =
                             spawnTarget([targets EXCEPT ![k] = hit(@)], r)
                     /\ score' = score + HitReward
                     /\ shotsHit' = shotsHit + 1
            ELSE UNCHANGED <<score, shotsHit, targets>>
    /\ UNCHANGED <<flagVars, gameMode, gameDuration, timeLeft, moveVars,
                   playerVars, levelVars, lockVars, frames>>

\* Game.onKeyDown(event), event.code = code
onKeyDown(code) ==
    /\ moveForward' = IF code \in {"ArrowUp", "KeyW"} THEN TRUE ELSE moveForward
    /\ moveLeft' = IF code \in {"ArrowLeft", "KeyA"} THEN TRUE ELSE moveLeft
    /\ moveBackward' =
          IF code \in {"ArrowDown", "KeyS"} THEN TRUE ELSE moveBackward
    /\ moveRight' = IF code \in {"ArrowRight", "KeyD"} THEN TRUE ELSE moveRight
    /\ isSprinting' = IF code = "ShiftLeft" THEN TRUE ELSE isSprinting
    /\ IF code = "Space" /\ canJump = TRUE
       THEN /\ velocity' = [velocity EXCEPT !.y = @ + JumpForce]
            /\ canJump' = FALSE
       ELSE UNCHANGED <<velocity, canJump>>
    /\ UNCHANGED <<flagVars, gameMode, gameDuration, timeLeft, statVars,
                   cameraPosition, targets, levelVars, lockVars, frames>>

\* Game.onKeyUp(event), event.code = code
onKeyUp(code) ==
    /\ moveForward' = IF code \in {"ArrowUp", "KeyW"} THEN FALSE ELSE moveForward
    /\ moveLeft' = IF code \in {"ArrowLeft", "KeyA"} THEN FALSE ELSE moveLeft
    /\ moveBackward' =
          IF code \in {"ArrowDown", "KeyS"} THEN FALSE ELSE moveBackward
    /\ moveRight' = IF code \in {"ArrowRight", "KeyD"} THEN FALSE ELSE moveRight
    /\ isSprinting' = IF code = "ShiftLeft" THEN FALSE ELSE isSprinting
    /\ UNCHANGED <<flagVars, gameMode, gameDuration, timeLeft, statVars,
                   playerVars, targets, levelVars, lockVars, frames>>

(***************************************************************************)
(* The frame: Game.animate().                                              *)
(***************************************************************************)
\* Number(flag)
Num(b) == IF b THEN 1 ELSE 0

\* v -= v * 25.0 * delta
friction(v, delta) == v - MulDiv(v, 25 * (delta \div 10), 100)

\* this.direction after normalize(): the intent of the held move keys
intent ==
    normalize(Vec((Num(moveRight) - Num(moveLeft)) * 1000, 0,
                  (Num(moveForward) - Num(moveBackward)) * 1000))

\* this.velocity after friction, gravity and acceleration (lines 821-835)
acceleratedVelocity(delta) ==
    LET acceleration ==
            IF isSprinting THEN Trunc(BaseAcceleration * 16, 10)
            ELSE BaseAcceleration
        push(d) == MulDiv(d, acceleration * (delta \div 10), 100)
        vx == friction(velocity.x, delta)
        vz == friction(velocity.z, delta)
    IN  Vec(IF moveLeft \/ moveRight THEN vx - push(intent.x) ELSE vx,
            velocity.y - Trunc(29400 * (delta \div 10), 100),
            IF moveForward \/ moveBackward THEN vz - push(intent.z) ELSE vz)

\* camera.position after controls.moveRight, controls.moveForward and the
\* vertical step (lines 837-841), with velocity v; the camera has turned
\* yaw quarter turns about the vertical axis, so its right vector is
\* (cos, 0, -sin) and its forward vector (-sin, 0, -cos)
movedPosition(v, delta, yaw) ==
    LET right == -MulDiv(v.x, delta \div 10, 100)
        forward == -MulDiv(v.z, delta \div 10, 100)
        c == Cos(90 * yaw)
        s == Sin(90 * yaw)
    IN  Vec(cameraPosition.x + MulDiv(right, c, 1000) - MulDiv(forward, s, 1000),
            cameraPosition.y + MulDiv(v.y, delta \div 10, 100),
            cameraPosition.z - MulDiv(right, s, 1000) - MulDiv(forward, c, 1000))

\* allPlatforms of the collision scan: the platforms, then the goal
allPlatforms ==
    parkourPlatforms \o (IF goalPlatform # Null THEN <<goalPlatform>> ELSE <<>>)

\* the condition of line 873 without withinX and withinZ: a landing that
\* PlatformLanding must tell from the program's
landsOnAnywhere(platform, p, vy) ==
    LET platformTop == platform.position.y + PlatformHalfHeight
        playerY == p.y - PlayerHeight
    IN  /\ playerY <= platformTop /\ playerY >= platformTop - LandingBand
        /\ vy <= 0

\* the condition of line 873 for one platform; p is the camera position
landsOn(platform, p, vy) ==
    LET halfW == platform.platformBounds.width \div 2
        halfD == platform.platformBounds.depth \div 2
        platformTop == platform.position.y + PlatformHalfHeight
        playerY == p.y - PlayerHeight
    IN  /\ p.x >= platform.position.x - halfW
        /\ p.x <= platform.position.x + halfW
        /\ p.z >= platform.position.z - halfD
        /\ p.z <= platform.position.z + halfD
        /\ playerY <= platformTop /\ playerY >= platformTop - LandingBand
        /\ vy <= 0

\* the index in allPlatforms of the platform the scan stops at, 0 for none
landing(p, vy) ==
    IF \E i \in 1..Len(allPlatforms) : landsOn(allPlatforms[i], p, vy)
    THEN CHOOSE i \in 1..Len(allPlatforms) :
            /\ landsOn(allPlatforms[i], p, vy)
            /\ \A j \in 1..(i - 1) : ~landsOn(allPlatforms[j], p, vy)
    ELSE 0

\* the arena clamp without its two `< -limit` lines: a clamp that
\* ArenaBounds must tell from the program's
clampUpperOnly(c) == IF c > ArenaLimit THEN ArenaLimit ELSE c

\* the arena clamp of lines 910-914
clamp(c) ==
    IF c > ArenaLimit THEN ArenaLimit
    ELSE IF c < -ArenaLimit THEN -ArenaLimit ELSE c

\* a test that no height fails: a fall recovery that FallRecovery must tell
\* from the program's
fellTooFarNever(y) == FALSE

\* the test of line 889 on the camera's height
fellTooFar(y) == y < FallLimit

\* the player after the movement block of a frame (lines 820-916):
\* velocity, position, canJump, and whether the goal was landed on
moved(delta, yaw) ==
    LET v == acceleratedVelocity(delta)
        p == movedPosition(v, delta, yaw)
        k == landing(p, v.y)
    IN  IF gameMode = "parkour"
        THEN IF k # 0
             THEN LET top == allPlatforms[k].position.y + PlatformHalfHeight
                      q == [p EXCEPT !.y = top + PlayerHeight]
                      w == [v EXCEPT !.y = 0]
                      recover == fellTooFar(q.y) /\ ~allPlatforms[k].isGoal
                  IN  [velocity |-> IF recover THEN Vec(0, 0, 0) ELSE w,
                       position |-> IF recover THEN ParkourSpawn ELSE q,
                       canJump |-> TRUE,
                       goal |-> allPlatforms[k].isGoal]
             ELSE IF fellTooFar(p.y)
             THEN [velocity |-> Vec(0, 0, 0), position |-> ParkourSpawn,
                   canJump |-> canJump, goal |-> FALSE]
             ELSE [velocity |-> v, position |-> p,
                   canJump |-> canJump, goal |-> FALSE]
        ELSE LET floor == p.y < PlayerHeight
             IN  [velocity |-> IF floor THEN [v EXCEPT !.y = 0] ELSE v,
                  position |-> Vec(clamp(p.x),
                                   IF floor THEN PlayerHeight ELSE p.y,
                                   clamp(p.z)),
                  canJump |-> IF floor THEN TRUE ELSE canJump,
                  goal |-> FALSE]

\* hittingTarget of lines 931-937
hittingTarget(ts, intersects) == firstActive(ts, intersects) # 0

\* the early returns without the one of the pause: frames that
\* PausedFramesFreeze must tell from the program's
frozenGameOverOnly == isGameOver

\* `this.timeLeft < 0` for the test of line 796: a test that TimedFrame must
\* tell from the program's
timedOutStrict(t) == t < 0

\* the two early returns of lines 774-782: the frame only renders
frozen == isPaused \/ isGameOver

\* the test of line 796 on the timer after `this.timeLeft -= delta`
timedOut(t) == t <= 0

\* the frames the bound MaxFrames counts
shortFrame(delta) == 0 < delta /\ delta < Stall

\* Game.animate() without its two tests of controls.isLocked: a frame that
\* TimerWithoutLock must tell from the program's
animateUnlocked(delta) ==
    /\ shortFrame(delta) => frames < MaxFrames
    /\ frames' = IF shortFrame(delta) THEN frames + 1 ELSE frames
    /\ UNCHANGED <<gameMode, gameDuration, shotsFired, shotsHit, moveVars,
                   levelVars, lockVars, isPaused>>
    /\ IF frozen
       THEN UNCHANGED <<isPlaying, isGameOver, timeLeft, score, playerVars,
                        targets>>
       ELSE IF ~isPlaying
       THEN /\ \E orbit \in Orbits :
                 cameraPosition' =
                    [cameraPosition EXCEPT !.x = Cos(orbit) * 10,
                                           !.z = Sin(orbit) * 10]
            /\ UNCHANGED <<isPlaying, isGameOver, timeLeft, score, velocity,
                           canJump, targets>>
       ELSE IF timedOut(timeLeft - delta)
       THEN /\ timeLeft' = 0
            /\ endGame
            /\ UNCHANGED <<score, playerVars, targets>>
       ELSE
         /\ timeLeft' = timeLeft - delta
         /\ IF FALSE
            THEN UNCHANGED <<isPlaying, isGameOver, score, playerVars, targets>>
            ELSE \E yaw \in Yaws :
              LET m == moved(delta, yaw)
              IN  /\ velocity' = m.velocity
                  /\ cameraPosition' = m.position
                  /\ canJump' = m.canJump
                  /\ IF m.goal
                     THEN /\ winParkour
                          /\ UNCHANGED <<score, targets>>
                     ELSE /\ UNCHANGED <<isPlaying, isGameOver>>
                          /\ \E dirs \in [1..Len(targets) -> DirDraws] :
                               targets' =
                                 [i \in 1..Len(targets) |->
                                    TargetUpdate(targets[i], delta, gameMode,
                                                 dirs[i])]
                          /\ IF gameMode = "tracking"
                             THEN \E intersects \in Intersections(targets) :
                                    score' =
                                      IF hittingTarget(targets', intersects)
                                      THEN score
                                           + Trunc(HitReward * (delta \div 10), 100)
                                      ELSE score
                             ELSE score' = score

\* Game.animate() with clock.getDelta() = delta.  A frame draws what it
\* reads from outside: the angle of the menu camera on its orbit, the
\* camera's heading, the raycast of a tracking frame and the Math.random()
\* draws of each target's new direction
animate(delta) ==
    /\ shortFrame(delta) => frames < MaxFrames
    /\ frames' = IF shortFrame(delta) THEN frames + 1 ELSE frames
    /\ UNCHANGED <<gameMode, gameDuration, shotsFired, shotsHit, moveVars,
                   levelVars, lockVars, isPaused>>
    /\ IF frozen
       THEN UNCHANGED <<isPlaying, isGameOver, timeLeft, score, playerVars,
                        targets>>
       ELSE IF ~isPlaying
       THEN /\ \E orbit \in Orbits :
                 cameraPosition' =
                    [cameraPosition EXCEPT !.x = Cos(orbit) * 10,
                                           !.z = Sin(orbit) * 10]
            /\ UNCHANGED <<isPlaying, isGameOver, timeLeft, score, velocity,
                           canJump, targets>>
       ELSE IF timedOut(timeLeft - delta)
       THEN /\ timeLeft' = 0
            /\ endGame
            /\ UNCHANGED <<score, playerVars, targets>>
       ELSE
         /\ timeLeft' = timeLeft - delta
         /\ IF ~isLocked
            THEN UNCHANGED <<isPlaying, isGameOver, score, playerVars, targets>>
            ELSE \E yaw \in Yaws :
              LET m == moved(delta, yaw)
              IN  /\ velocity' = m.velocity
                  /\ cameraPosition' = m.position
                  /\ canJump' = m.canJump
                  /\ IF m.goal
                     THEN /\ winParkour
                          /\ UNCHANGED <<score, targets>>
                     ELSE /\ UNCHANGED <<isPlaying, isGameOver>>
                          /\ \E dirs \in [1..Len(targets) -> DirDraws] :
                               targets' =
                                 [i \in 1..Len(targets) |->
                                    TargetUpdate(targets[i], delta, gameMode,
                                                 dirs[i])]
                          /\ IF gameMode = "tracking"
                             THEN \E intersects \in Intersections(targets) :
                                    score' =
                                      IF hittingTarget(targets', intersects)
                                      THEN score
                                           + Trunc(HitReward * (delta \div 10), 100)
                                      ELSE score
                             ELSE score' = score

\* one step of the program, its frames drawing their delta from deltas
step(deltas) ==
    \/ \E mode \in Modes : startGame(mode)
    \/ retryGame
    \/ onUnlock
    \/ onLock
    \/ resumeGame
    \/ quitToMain
    \/ \E time \in Durations : selectDuration(time)
    \/ \E intersects \in Intersections(targets) : onMouseDown(intersects)
    \/ \E code \in KeyCodes : onKeyDown(code)
    \/ \E code \in KeyCodes : onKeyUp(code)
    \/ \E delta \in deltas : animate(delta)

Next == step(Deltas)

Spec == Init /\ [][Next]_vars

(***************************************************************************)
(* A session near its end.  The goal platform lies 26.25 above the start   *)
(* platform and a jump rises 1.7 at most, so a win takes a climb of all    *)
(* twenty platforms, hundreds of frames from Init.  InitGoal is a state of *)
(* such a session: the first level of LevelDraws, the player standing on   *)
(* the last generated platform, on its corner under the goal platform,     *)
(* with 20 s left on the timer.                                            *)
(***************************************************************************)
GoalLevel ==
    [parkourPlatforms |->
        createdPlatforms(<<>>, [i \in 1..PlatformCount |->
                                   <<0, IF i <= 5 THEN 300 ELSE 800>>]),
     goalPlatform |->
        createdGoal(<<>>, [i \in 1..PlatformCount |->
                              <<0, IF i <= 5 THEN 300 ELSE 800>>])]

InitGoal ==
    LET last == GoalLevel.parkourPlatforms[PlatformCount + 1]
    IN  /\ isPlaying = TRUE /\ isPaused = FALSE /\ isGameOver = FALSE
        /\ gameMode = "parkour"
        /\ gameDuration = DefaultDuration /\ timeLeft = 20000
        /\ score = 0 /\ shotsFired = 0 /\ shotsHit = 0
        /\ canJump = TRUE
        /\ moveForward = FALSE /\ moveBackward = FALSE
        /\ moveLeft = FALSE /\ moveRight = FALSE /\ isSprinting = FALSE
        /\ velocity = Vec(0, 0, 0)
        /\ cameraPosition =
              Vec(last.position.x - last.platformBounds.width \div 2,
                  last.position.y + PlatformHalfHeight + PlayerHeight,
                  last.position.z - last.platformBounds.depth \div 2)
        /\ targets = <<>>
        /\ parkourPlatforms = GoalLevel.parkourPlatforms
        /\ goalPlatform = GoalLevel.goalPlatform
        /\ isLocked = TRUE /\ lockRequested = FALSE
        /\ frames = 0

\* clock.getDelta() of the frames of SpecGoal: a short frame and a stall
GoalDeltas == {200, 60000}

NextGoal == step(GoalDeltas)

SpecGoal == InitGoal /\ [][NextGoal]_vars

(***************************************************************************)
(* A session on the move.  InitWalk is a state of a parkour session: the   *)
(* level of InitGoal, the player standing still on the start platform,     *)
(* 0.05 from its edge (the platform is 6 wide), one second into the        *)
(* session.  Its frames are short enough to walk, and the D key joins the  *)
(* space bar.                                                              *)
(***************************************************************************)
InitWalk ==
    /\ isPlaying = TRUE /\ isPaused = FALSE /\ isGameOver = FALSE
    /\ gameMode = "parkour"
    /\ gameDuration = DefaultDuration /\ timeLeft = 59000
    /\ score = 0 /\ shotsFired = 0 /\ shotsHit = 0
    /\ canJump = TRUE
    /\ moveForward = FALSE /\ moveBackward = FALSE
    /\ moveLeft = FALSE /\ moveRight = FALSE /\ isSprinting = FALSE
    /\ velocity = Vec(0, 0, 0)
    /\ cameraPosition = [ParkourSpawn EXCEPT !.x = 2950]
    /\ targets = <<>>
    /\ parkourPlatforms = GoalLevel.parkourPlatforms
    /\ goalPlatform = GoalLevel.goalPlatform
    /\ isLocked = TRUE /\ lockRequested = FALSE
    /\ frames = 0

\* clock.getDelta() of the frames of SpecWalk: a frame of 20 ms and one of
\* a second
WalkDeltas == {20, 1000}

\* event.code of the keys of SpecWalk
WalkKeyCodes == {"Space", "KeyD"}

\* one step of SpecWalk: the events of step that bear on the player (no
\* fire action, no duration button), its frames drawing from WalkDeltas
NextWalk ==
    \/ \E mode \in Modes : startGame(mode)
    \/ retryGame
    \/ onUnlock
    \/ onLock
    \/ resumeGame
    \/ quitToMain
    \/ \E code \in WalkKeyCodes : onKeyDown(code)
    \/ \E code \in WalkKeyCodes : onKeyUp(code)
    \/ \E delta \in WalkDeltas : animate(delta)

SpecWalk == InitWalk /\ [][NextWalk]_vars

(***************************************************************************)
(* One Target on its own.  InitTarget is the state in which a Target has   *)
(* just been constructed (inactive, at the origin, no direction); the      *)
(* steps are the calls of its methods spawn, despawn and update, with      *)
(* positions that spawnTarget can draw, one of them behind the far side    *)
(* of the box (z = -19.985), and frames counting the calls of update.      *)
(***************************************************************************)
MaxUpdates == 3

\* delta of a call of update, in ms: a short frame, and one long enough to
\* pass the direction-change timer
TargetDeltas == {20, 1500}

\* Math.random() draws of a direction: -x, +x, +z, -z
TargetDirDraws ==
    {<<0, 500, 500>>, <<750, 500, 500>>, <<500, 500, 999>>, <<500, 500, 0>>}

\* positions of spawnTarget, from its draws (0.5, 0.5, 0.999) and
\* (0.5, 0.5, 0.5)
TargetPositions ==
    {Vec((r[1] - 500) * 15, 1000 + r[2] * 4, -5000 - r[3] * 15) :
        r \in {<<500, 500, 999>>, <<500, 500, 500>>}}

InitTarget ==
    /\ isPlaying = FALSE /\ isPaused = FALSE /\ isGameOver = FALSE
    /\ gameMode = "static"
    /\ gameDuration = DefaultDuration /\ timeLeft = DefaultDuration
    /\ score = 0 /\ shotsFired = 0 /\ shotsHit = 0
    /\ canJump = FALSE
    /\ moveForward = FALSE /\ moveBackward = FALSE
    /\ moveLeft = FALSE /\ moveRight = FALSE /\ isSprinting = FALSE
    /\ velocity = Vec(0, 0, 0)
    /\ cameraPosition = Vec(0, PlayerHeight, 0)
    /\ targets = <<NewTarget>>
    /\ parkourPlatforms = <<>> /\ goalPlatform = Null
    /\ isLocked = FALSE /\ lockRequested = FALSE
    /\ frames = 0

\* what a call of a Target's method leaves alone
gameVars ==
    <<flagVars, gameMode, gameDuration, timeLeft, statVars, moveVars,
      playerVars, levelVars, lockVars>>

\* target.spawn(position)
TargetSpawn(position, r) ==
    /\ targets' = <<spawn(targets[1], position, r)>>
    /\ UNCHANGED <<gameVars, frames>>

\* target.despawn()
TargetDespawn ==
    /\ targets' = <<despawn(targets[1])>>
    /\ UNCHANGED <<gameVars, frames>>

\* target.update(delta, mode)
TargetUpdated(delta, mode, r) ==
    /\ frames < MaxUpdates
    /\ frames' = frames + 1
    /\ targets' = <<TargetUpdate(targets[1], delta, mode, r)>>
    /\ UNCHANGED gameVars

NextTarget ==
    \/ \E position \in TargetPositions : \E r \in TargetDirDraws :
          TargetSpawn(position, r)
    \/ TargetDespawn
    \/ \E delta \in TargetDeltas : \E mode \in Modes : \E r \in TargetDirDraws :
          TargetUpdated(delta, mode, r)

SpecTarget == InitTarget /\ [][NextTarget]_vars

(***************************************************************************)
(* The session states and what the properties below call session state.    *)
(***************************************************************************)
Idle == ~isPlaying /\ ~isPaused /\ ~isGameOver
Playing == isPlaying /\ ~isPaused /\ ~isGameOver
Paused == isPlaying /\ isPaused /\ ~isGameOver
GameOver == isGameOver /\ ~isPlaying /\ ~isPaused

TimedModes == {"static", "tracking"}

\* everything of a session but the input lock and the held keys
sessionVars ==
    <<flagVars, gameMode, gameDuration, timeLeft, statVars, playerVars,
      targets, levelVars>>

\* the player stands on the goal platform: feet on its top, inside its edges
OnGoal ==
    /\ goalPlatform # Null
    /\ cameraPosition.y =
          goalPlatform.position.y + PlatformHalfHeight + PlayerHeight
    /\ cameraPosition.x >=
          goalPlatform.position.x - goalPlatform.platformBounds.width \div 2
    /\ cameraPosition.x <=
          goalPlatform.position.x + goalPlatform.platformBounds.width \div 2
    /\ cameraPosition.z >=
          goalPlatform.position.z - goalPlatform.platformBounds.depth \div 2
    /\ cameraPosition.z <=
          goalPlatform.position.z + goalPlatform.platformBounds.depth \div 2

(***************************************************************************)
(* C1.  Whatever handlers and frames have run, the three flags show        *)
(* exactly one of idle, playing, paused and game-over; no other combination *)
(* of isPlaying, isPaused and isGameOver is reachable.                     *)
(***************************************************************************)
OneSessionState ==
    /\ Idle \/ Playing \/ Paused \/ GameOver
    /\ Cardinality({b \in {"idle", "playing", "paused", "game-over"} :
                      \/ b = "idle" /\ Idle
                      \/ b = "playing" /\ Playing
                      \/ b = "paused" /\ Paused
                      \/ b = "game-over" /\ GameOver}) = 1

\* a session ended by a win: game-over, the player on the goal platform
WonGameOver == GameOver /\ gameMode = "parkour" /\ OnGoal

(***************************************************************************)
(* C2.  A parkour session never ends because of elapsed time: it leaves    *)
(* playing/paused only to game-over with the player landed on the goal     *)
(* platform, or to idle by a quit (a restart keeps it playing).            *)
(***************************************************************************)
ParkourEndsOnlyByGoalOrQuit ==
    [][(gameMode = "parkour" /\ isPlaying /\ ~isPlaying')
          => (Idle' \/ (GameOver' /\ OnGoal'))]_vars

(***************************************************************************)
(* C3.  In static or tracking mode a frame of a playing, unpaused session  *)
(* takes delta off timeLeft; when that leaves nothing, timeLeft is exactly *)
(* 0 and the session is game-over when the frame ends, the player, the     *)
(* targets and the score untouched.  timeLeft is never negative.           *)
(***************************************************************************)
TimedFrame ==
    /\ [][\A delta \in Deltas :
            (gameMode \in TimedModes /\ Playing /\ animate(delta))
               => IF timeLeft - delta <= 0
                  THEN /\ timeLeft' = 0
                       /\ GameOver'
                       /\ UNCHANGED <<score, playerVars, targets>>
                  ELSE /\ timeLeft' = timeLeft - delta
                       /\ Playing']_vars
    /\ [](timeLeft >= 0)

\* a timed session the timer has ended
TimedOut == GameOver /\ gameMode \in TimedModes /\ timeLeft = 0

(***************************************************************************)
(* C4.  Frames of a paused session change neither timeLeft, the score, the *)
(* shot counters, the player's position and velocity nor the targets;      *)
(* neither the pause nor the resume changes timeLeft, so the timer goes on *)
(* from the value it had when the pause began.                             *)
(***************************************************************************)
PausedFramesFreeze ==
    [][/\ (isPaused /\ \E delta \in Deltas : animate(delta))
             => UNCHANGED <<timeLeft, statVars, velocity, cameraPosition,
                            targets>>
       /\ (isPaused /\ resumeGame) => (timeLeft' = timeLeft /\ Playing')
       /\ (~isPaused /\ isPaused') => timeLeft' = timeLeft]_vars

\* a session paused after part of its time has run
PausedMidSession == Paused /\ 0 < timeLeft /\ timeLeft < gameDuration

(***************************************************************************)
(* C5.  The pointer-unlock signal changes session state only when the      *)
(* session is playing and unpaused, and then only by setting paused; in    *)
(* idle, paused or game-over it changes none.  It leaves a state in which  *)
(* a second signal changes nothing at all.                                 *)
(***************************************************************************)
PauseTrigger ==
    [][onUnlock
         => /\ Playing => Paused'
            /\ ~Playing => UNCHANGED sessionVars
            /\ UNCHANGED <<isPlaying, isGameOver, gameMode, gameDuration,
                           timeLeft, statVars, playerVars, targets,
                           levelVars>>
            /\ ~Playing' /\ ~isLocked'
            /\ (~Playing /\ ~isLocked) => UNCHANGED vars]_vars

\* a tracking session the signal has paused
PausedByTrigger == Paused /\ ~isLocked /\ gameMode = "tracking"

(***************************************************************************)
(* C6.  resumeGame acts only on a paused session, where it clears paused   *)
(* and asks for the input lock, the score, the timer, the counters and the *)
(* player untouched; on an idle, playing or game-over session it changes   *)
(* nothing, the input lock included.                                       *)
(***************************************************************************)
ResumeOnlyFromPaused ==
    [][resumeGame
         => IF Paused
            THEN /\ Playing' /\ lockRequested'
                 /\ UNCHANGED <<gameMode, gameDuration, timeLeft, statVars,
                                playerVars, targets, levelVars>>
            ELSE UNCHANGED vars]_vars

(***************************************************************************)
(* C7.  startGame(mode), from whatever state, zeroes score, shotsFired and *)
(* shotsHit, sets timeLeft to gameDuration, the velocity to zero and the   *)
(* position to the spawn point of the mode, (0, 1.6, 0) or, in parkour,    *)
(* (0, startPlatformY + 0.25 + 1.6, 0), and leaves the session playing in  *)
(* that mode, paused and game-over cleared.                                *)
(***************************************************************************)
StartResets ==
    [][\A mode \in Modes :
         startGame(mode)
            => /\ score' = 0 /\ shotsFired' = 0 /\ shotsHit' = 0
               /\ timeLeft' = gameDuration
               /\ velocity' = Vec(0, 0, 0)
               /\ cameraPosition' =
                     IF mode = "parkour"
                     THEN Vec(0, StartPlatformY + 250 + 1600, 0)
                     ELSE Vec(0, 1600, 0)
               /\ Playing' /\ gameMode' = mode]_vars

\* a parkour session just started with a duration chosen in the menu
StartedParkour ==
    /\ Playing /\ gameMode = "parkour" /\ lockRequested
    /\ gameDuration # DefaultDuration /\ timeLeft = gameDuration
    /\ cameraPosition = Vec(0, StartPlatformY + 250 + 1600, 0)
    /\ velocity = Vec(0, 0, 0)

(***************************************************************************)
(* C8.  quitToMain leaves the session idle, the platform set empty and no  *)
(* goal platform, from playing, paused or game-over; on an idle session it *)
(* changes no session state.                                               *)
(***************************************************************************)
QuitToIdle ==
    [][quitToMain
         => /\ Idle'
            /\ parkourPlatforms' = <<>> /\ goalPlatform' = Null
            /\ Idle => UNCHANGED sessionVars]_vars

\* the menu after a parkour session was quit: its level is gone
QuitParkour ==
    Idle /\ gameMode = "parkour" /\ parkourPlatforms = <<>> /\ goalPlatform = Null

(***************************************************************************)
(* C9.  Game-over is entered only by a timeout of a static or tracking     *)
(* session or by a goal landing of a playing, unpaused parkour session;    *)
(* in game-over, frames and pointer-unlock signals change no session       *)
(* state; game-over is left only to idle (quit) or to playing in the same  *)
(* mode (retry).                                                           *)
(***************************************************************************)
GameOverEntryAndExit ==
    [][/\ (~isGameOver /\ isGameOver')
             => /\ Playing /\ GameOver'
                /\ \/ gameMode \in TimedModes /\ timeLeft' = 0
                   \/ gameMode = "parkour" /\ OnGoal'
       /\ (isGameOver /\ (onUnlock \/ \E delta \in Deltas : animate(delta)))
             => UNCHANGED sessionVars
       /\ (isGameOver /\ ~isGameOver')
             => (Idle' \/ (Playing' /\ gameMode' = gameMode))]_vars

(***************************************************************************)
(* C10.  score, shotsFired and shotsHit never decrease in a step that is   *)
(* not the reset of a session start (startGame, retryGame): no frame, no   *)
(* input, no pause, resume, timeout, win or quit takes them down.          *)
(***************************************************************************)
CountersMonotone ==
    [][\/ /\ score' >= score
          /\ shotsFired' >= shotsFired
          /\ shotsHit' >= shotsHit
       \/ \E mode \in Modes : startGame(mode)]_vars

\* a session that has ended with a hit on its counters
EndedWithHits == GameOver /\ score > 0 /\ shotsHit > 0 /\ shotsFired > 0

(***************************************************************************)
(* Fire actions.  activeCandidates is the set of places in the raycast's   *)
(* list that hold an active target; nearestActive the target at the first  *)
(* of them.                                                                *)
(***************************************************************************)
activeCandidates(intersects) ==
    {i \in 1..Len(intersects) :
        intersects[i] # 0 /\ targets[intersects[i]].isActive}

nearestActive(intersects) ==
    intersects[CHOOSE i \in activeCandidates(intersects) :
                  \A j \in activeCandidates(intersects) : i <= j]

activeCount(ts) == Cardinality({i \in 1..Len(ts) : ts[i].isActive})

\* a fire action the handler accepts in a playing session
acceptedFire(intersects) == Playing /\ isLocked /\ onMouseDown(intersects)

(***************************************************************************)
(* C11.  In static mode an accepted fire action whose list holds an active *)
(* target hits the nearest such target and no other: score goes up by 100, *)
(* shotsHit and shotsFired by 1, the hit target is deactivated and one     *)
(* target is spawned active at once, in a free slot of the pool (the one   *)
(* the hit freed, or an inactive one before it) or in a new one; the other *)
(* targets are left as they were.                                          *)
(***************************************************************************)
StaticHit ==
    [][\A intersects \in Intersections(targets) :
         (gameMode = "static" /\ acceptedFire(intersects)
            /\ activeCandidates(intersects) # {})
            => LET k == nearestActive(intersects)
               IN  /\ score' = score + 100
                   /\ shotsHit' = shotsHit + 1
                   /\ shotsFired' = shotsFired + 1
                   /\ Len(targets') \in {Len(targets), Len(targets) + 1}
                   /\ activeCount(targets') = activeCount(targets)
                   /\ \E j \in 1..Len(targets') :
                        /\ targets'[j].isActive
                        /\ j <= Len(targets)
                              => (j = k \/ ~targets[j].isActive)
                        /\ k # j => ~targets'[k].isActive
                        /\ \A i \in 1..Len(targets) \ {j, k} :
                              targets'[i] = targets[i]]_vars

\* a static session after its one hit: a target is active again
HitScored ==
    /\ Playing /\ gameMode = "static"
    /\ score = 100 /\ shotsHit = 1 /\ shotsFired = 1
    /\ activeCount(targets) = 1

(***************************************************************************)
(* C12.  An accepted fire action whose list holds no active target, the    *)
(* empty list included, adds 1 to shotsFired and changes neither score,    *)
(* shotsHit, the targets and their pool nor the session.                   *)
(***************************************************************************)
FireMiss ==
    [][\A intersects \in Intersections(targets) :
         (acceptedFire(intersects) /\ activeCandidates(intersects) = {})
            => /\ shotsFired' = shotsFired + 1
               /\ UNCHANGED <<score, shotsHit, targets, flagVars, gameMode,
                              gameDuration, timeLeft, playerVars,
                              levelVars>>]_vars

\* a static session after a shot that missed its active target
ShotMissed ==
    /\ Playing /\ gameMode = "static"
    /\ shotsFired = 1 /\ shotsHit = 0 /\ score = 0
    /\ activeCount(targets) = 1

(***************************************************************************)
(* C13.  In tracking mode a frame of a playing session holding the input   *)
(* lock adds to score either 100 * delta (delta in seconds), which takes   *)
(* an active target for the aim ray to meet, or nothing; it changes no     *)
(* target's active flag, nor the pool's size, nor shotsHit.  A fire action *)
(* in tracking mode changes shotsFired only.                               *)
(***************************************************************************)
TrackingScore ==
    [][/\ \A delta \in Deltas :
            (gameMode = "tracking" /\ Playing /\ isLocked /\ animate(delta))
               => /\ score' \in {score, score + (100 * delta) \div 1000}
                  /\ score' # score => activeCount(targets') > 0
                  /\ shotsHit' = shotsHit /\ shotsFired' = shotsFired
                  /\ Len(targets') = Len(targets)
                  /\ \A i \in 1..Len(targets) :
                        targets'[i].isActive = targets[i].isActive
       /\ \A intersects \in Intersections(targets) :
            (gameMode = "tracking" /\ acceptedFire(intersects))
               => /\ shotsFired' = shotsFired + 1
                  /\ UNCHANGED <<score, shotsHit, targets, flagVars,
                                 gameMode, gameDuration, timeLeft,
                                 playerVars, levelVars>>]_vars

\* a tracking session after a frame of 20 s with the ray on the target, and
\* a shot
TrackingScored ==
    /\ Playing /\ gameMode = "tracking"
    /\ score = 2000 /\ shotsFired = 1 /\ shotsHit = 0
    /\ activeCount(targets) = 1

(***************************************************************************)
(* C14.  The pool never shrinks, and it grows only in a step whose spawn   *)
(* found every target already in the pool active (they are all active      *)
(* after it); a spawn that finds an inactive target reactivates it.  Every *)
(* spawn of the program follows a despawn, so one instance serves them     *)
(* all.                                                                    *)
(***************************************************************************)
PoolReuse ==
    /\ [][/\ Len(targets') >= Len(targets)
          /\ Len(targets') > Len(targets)
                => /\ Len(targets') = Len(targets) + 1
                   /\ \A i \in 1..Len(targets) : targets'[i].isActive
          /\ (Len(targets') = Len(targets)
                /\ activeCount(targets') > activeCount(targets))
                => \E i \in 1..Len(targets) :
                      ~targets[i].isActive /\ targets'[i].isActive]_vars
    /\ [](Len(targets) <= 1)

\* a session ended after a hit: two spawns at least, in one instance
OneInstanceServed == GameOver /\ shotsHit = 1 /\ Len(targets) = 1

(***************************************************************************)
(* C15.  While a parkour session is playing no target of the pool is       *)
(* active, whatever sessions of other modes came before it.                *)
(***************************************************************************)
NoTargetsInParkour ==
    (gameMode = "parkour" /\ isPlaying) => activeCount(targets) = 0

(***************************************************************************)
(* The player rests on a supporting surface: on the floor of the arena,    *)
(* or, in parkour, with the feet on the top of a platform, inside its      *)
(* edges.                                                                  *)
(***************************************************************************)
Resting ==
    IF gameMode = "parkour"
    THEN \E i \in 1..Len(allPlatforms) :
            LET platform == allPlatforms[i]
            IN  /\ cameraPosition.y - PlayerHeight
                      = platform.position.y + PlatformHalfHeight
                /\ cameraPosition.x >=
                      platform.position.x - platform.platformBounds.width \div 2
                /\ cameraPosition.x <=
                      platform.position.x + platform.platformBounds.width \div 2
                /\ cameraPosition.z >=
                      platform.position.z - platform.platformBounds.depth \div 2
                /\ cameraPosition.z <=
                      platform.position.z + platform.platformBounds.depth \div 2
    ELSE cameraPosition.y = PlayerHeight

(***************************************************************************)
(* C16.  In a session, a jump request gives its impulse of 10 and clears   *)
(* the grounded flag only when the player rests on the floor or on a       *)
(* platform; made while the player is airborne it changes neither the      *)
(* velocity nor the flag.                                                  *)
(***************************************************************************)
JumpOnlyWhenGrounded ==
    [][(isPlaying /\ onKeyDown("Space"))
         => IF Resting
            THEN \/ UNCHANGED <<velocity, canJump>>
                 \/ /\ canJump /\ ~canJump'
                    /\ velocity' = [velocity EXCEPT !.y = @ + 10000]
            ELSE UNCHANGED <<velocity, canJump>>]_vars

(***************************************************************************)
(* The collision step, as the properties read it: topOf(i) is the top of   *)
(* the i-th platform of the scan (platformTop), matchingPlatforms(p, vy)   *)
(* the platforms that a camera at p with vertical velocity vy lands on.    *)
(***************************************************************************)
topOf(i) == allPlatforms[i].position.y + 250

matchingPlatforms(p, vy) ==
    {i \in 1..Len(allPlatforms) :
        LET pf == allPlatforms[i]
        IN  /\ 2 * (p.x - pf.position.x) <= pf.platformBounds.width
            /\ 2 * (pf.position.x - p.x) <= pf.platformBounds.width
            /\ 2 * (p.z - pf.position.z) <= pf.platformBounds.depth
            /\ 2 * (pf.position.z - p.z) <= pf.platformBounds.depth
            /\ p.y - 1600 <= topOf(i)
            /\ p.y - 1600 >= topOf(i) - 1000
            /\ vy <= 0}

(***************************************************************************)
(* C17.  In a parkour frame that reaches the collision step, with velocity *)
(* v and camera position p after the moves: if some platform has x and z   *)
(* of p within its footprint (edges included), the feet (p.y - 1.6) within *)
(* [platformTop - 1.0, platformTop] (ends included) and v.y <= 0, the      *)
(* frame ends with velocity.y = 0, the camera at platformTop + 1.6 of a    *)
(* matching platform and grounded true; if none has, the collision step    *)
(* changes neither velocity.y, the camera's y nor grounded (what a camera  *)
(* below -10 then undergoes is the fall recovery's).                       *)
(***************************************************************************)
PlatformLanding ==
    [][\A delta \in WalkDeltas : \A yaw \in Yaws :
         (gameMode = "parkour" /\ Playing /\ isLocked
            /\ timeLeft - delta > 0 /\ animate(delta))
            => LET v == acceleratedVelocity(delta)
                   p == movedPosition(v, delta, yaw)
                   matching == matchingPlatforms(p, v.y)
               IN  IF matching # {}
                   THEN /\ velocity'.y = 0
                        /\ canJump'
                        /\ \E i \in matching :
                              cameraPosition'.y = topOf(i) + 1600
                   ELSE /\ canJump' = canJump
                        /\ p.y >= -10000
                              => (velocity'.y = v.y /\ cameraPosition'.y = p.y)]_vars

\* the player of InitWalk after a frame of 20 ms: landed where it stood
LandedOnStart ==
    /\ Playing /\ gameMode = "parkour" /\ isLocked
    /\ frames = 1 /\ timeLeft = 58980
    /\ cameraPosition = [ParkourSpawn EXCEPT !.x = 2950]
    /\ velocity.y = 0 /\ canJump

(***************************************************************************)
(* C18.  In the parkour frame whose landing matches the goal platform the  *)
(* session is game-over, not paused, when the frame ends, and nothing runs *)
(* after the match: the player is left snapped on the goal (no fall        *)
(* recovery), the targets and the score are untouched.                     *)
(***************************************************************************)
GoalWin ==
    [][\A delta \in GoalDeltas : \A yaw \in Yaws :
         (gameMode = "parkour" /\ Playing /\ isLocked
            /\ timeLeft - delta > 0 /\ animate(delta))
            => LET v == acceleratedVelocity(delta)
                   p == movedPosition(v, delta, yaw)
                   matching == matchingPlatforms(p, v.y)
               IN  (matching # {} /\ \A i \in matching : allPlatforms[i].isGoal)
                      => /\ GameOver'
                         /\ cameraPosition' =
                               [p EXCEPT !.y = goalPlatform.position.y + 250 + 1600]
                         /\ velocity' = [v EXCEPT !.y = 0]
                         /\ canJump'
                         /\ timeLeft' = timeLeft - delta
                         /\ UNCHANGED <<score, shotsFired, shotsHit, targets,
                                        levelVars>>]_vars

\* the session of InitGoal won by a jump and two frames of 200 ms
WonInTwoFrames ==
    /\ GameOver /\ gameMode = "parkour" /\ OnGoal
    /\ velocity.y = 0 /\ canJump /\ timeLeft = 19600 /\ frames = 2

(***************************************************************************)
(* C19.  In a parkour frame whose collision step leaves the camera below   *)
(* -10, the player is put back at the start spawn point with velocity      *)
(* zero in that frame; the session stays playing, the frame's own tick     *)
(* aside the timer, the level and the counters are as they were.  So the   *)
(* camera is never below -10 when a frame of a parkour session ends.       *)
(***************************************************************************)
FallRecovery ==
    /\ [][\A delta \in WalkDeltas : \A yaw \in Yaws :
            (gameMode = "parkour" /\ Playing /\ isLocked
               /\ timeLeft - delta > 0 /\ animate(delta))
               => LET v == acceleratedVelocity(delta)
                      p == movedPosition(v, delta, yaw)
                  IN  /\ (matchingPlatforms(p, v.y) = {} /\ p.y < -10000)
                            => /\ cameraPosition' =
                                     Vec(0, StartPlatformY + 250 + 1600, 0)
                               /\ velocity' = Vec(0, 0, 0)
                               /\ Playing'
                               /\ timeLeft' = timeLeft - delta
                               /\ UNCHANGED <<levelVars, statVars>>
                      /\ cameraPosition'.y >= -10000]_vars
    /\ []((gameMode = "parkour" /\ isPlaying) => cameraPosition.y >= -10000)

\* the player of InitWalk after a frame of a second with D held: fallen
\* through and beside the platform, and put back at the spawn point
Recovered ==
    /\ Playing /\ gameMode = "parkour" /\ isLocked /\ moveRight
    /\ frames = 1 /\ timeLeft = 58000
    /\ cameraPosition = ParkourSpawn /\ velocity = Vec(0, 0, 0)

(***************************************************************************)
(* C20.  In static and tracking modes every frame of a playing session     *)
(* ends with the camera at y >= 1.6 and with |x| <= 19 and |z| <= 19; a    *)
(* frame that clamps y to 1.6 (the moves left it lower) ends with          *)
(* velocity.y = 0 and grounded true.                                       *)
(***************************************************************************)
ArenaBounds ==
    /\ [][\A delta \in WalkDeltas : \A yaw \in Yaws :
            (gameMode \in TimedModes /\ Playing /\ animate(delta))
               => /\ cameraPosition'.y >= 1600
                  /\ cameraPosition'.x <= 19000 /\ cameraPosition'.x >= -19000
                  /\ cameraPosition'.z <= 19000 /\ cameraPosition'.z >= -19000
                  /\ (isLocked /\ timeLeft - delta > 0
                        /\ movedPosition(acceleratedVelocity(delta),
                                         delta, yaw).y < 1600)
                        => /\ cameraPosition'.y = 1600
                           /\ velocity'.y = 0
                           /\ canJump']_vars
    /\ []((gameMode \in TimedModes /\ isPlaying)
             => /\ cameraPosition.y >= 1600
                /\ cameraPosition.x <= 19000 /\ cameraPosition.x >= -19000
                /\ cameraPosition.z <= 19000 /\ cameraPosition.z >= -19000)

\* a static session after a second frame of a second with D held: the
\* player thrown back from the wall at x = 19 to the one at x = -19, on
\* the floor
ThrownToFarWall ==
    /\ Playing /\ gameMode = "static" /\ frames = 2
    /\ cameraPosition = Vec(-19000, 1600, 0)
    /\ velocity.y = 0 /\ canJump

(***************************************************************************)
(* supportedAt(q): a player resting on a surface is still over it at q:    *)
(* anywhere on the floor of the arena, or, in parkour, inside the edges of *)
(* a platform whose top the feet are on.                                   *)
(***************************************************************************)
supportedAt(q) ==
    IF gameMode = "parkour"
    THEN \E i \in 1..Len(allPlatforms) :
            LET pf == allPlatforms[i]
            IN  /\ cameraPosition.y - PlayerHeight = topOf(i)
                /\ 2 * (q.x - pf.position.x) <= pf.platformBounds.width
                /\ 2 * (pf.position.x - q.x) <= pf.platformBounds.width
                /\ 2 * (q.z - pf.position.z) <= pf.platformBounds.depth
                /\ 2 * (pf.position.z - q.z) <= pf.platformBounds.depth
    ELSE TRUE

(***************************************************************************)
(* C21.  A player whom a frame has put on a surface, grounded and with no  *)
(* vertical velocity, is in the same condition at the end of every later   *)
(* frame, whatever its delta: velocity.y is 0, the grounded flag is set    *)
(* and the height is that of the surface, as long as no jump is accepted   *)
(* and the frame's move keeps x and z over the supporting surface.         *)
(***************************************************************************)
GroundedStays ==
    [][\A delta \in GoalDeltas : \A yaw \in Yaws :
         (/\ Playing /\ isLocked /\ timeLeft - delta > 0
          /\ Resting /\ velocity.y = 0 /\ canJump
          /\ supportedAt(movedPosition(acceleratedVelocity(delta), delta, yaw))
          /\ animate(delta))
            => /\ velocity'.y = 0 /\ canJump'
               /\ cameraPosition'.y = cameraPosition.y]_vars

(***************************************************************************)
(* C22.  A call of Target.update changes the target's position, direction  *)
(* and direction-change timer only if the target is active and the mode    *)
(* is tracking: on an inactive target, and on an active target in static   *)
(* or parkour mode, it changes nothing, and in no case does it change      *)
(* whether the target is active.                                           *)
(***************************************************************************)
UpdateOnlyTracking ==
    [][\A delta \in TargetDeltas : \A mode \in Modes : \A r \in TargetDirDraws :
         TargetUpdated(delta, mode, r)
            => /\ targets'[1].isActive = targets[1].isActive
               /\ (~targets[1].isActive \/ mode # "tracking")
                     => targets' = targets]_vars

\* an active target that every update so far has left where it was spawned
LeftInPlace ==
    /\ frames = MaxUpdates
    /\ targets[1].isActive
    /\ targets[1].position \in TargetPositions
    /\ targets[1].changeDirTimer = 0
    /\ targets[1].moveDirection = Vec(0, 0, 1000)

(***************************************************************************)
(* C23.  A press of the space bar while the session is paused, idle or     *)
(* over changes neither the player's velocity nor the grounded flag.       *)
(***************************************************************************)
JumpOnlyWhilePlaying ==
    [][(~Playing /\ onKeyDown("Space")) => UNCHANGED <<velocity, canJump>>]_vars

(***************************************************************************)
(* C24.  A fire action while the input lock is not held, or while the      *)
(* session is paused or over, is ignored: shotsFired, shotsHit, score and  *)
(* all targets are as they were.                                           *)
(***************************************************************************)
FireIgnored ==
    [][\A intersects \in Intersections(targets) :
         (onMouseDown(intersects) /\ (~isLocked \/ isPaused \/ isGameOver))
            => UNCHANGED <<statVars, targets>>]_vars

\* a finished session with the lock still held, no shot fired, and an
\* active target that a shot could hit
OverWithLockHeld ==
    /\ GameOver /\ isLocked /\ shotsFired = 0
    /\ gameMode = "static"
    /\ \E i \in 1..Len(targets) : targets[i].isActive

(***************************************************************************)
(* The landing bands of a level never overlap: the tops of any two         *)
(* platforms of the scan lie more than the band of 1.0 apart, so no camera *)
(* position matches two platforms in one frame and the order of the scan   *)
(* (regular platforms, then the goal) decides no landing.                  *)
(***************************************************************************)
BandsApart ==
    \A i, j \in 1..Len(allPlatforms) :
       i < j => topOf(j) - topOf(i) > LandingBand

(***************************************************************************)
(* C26.  After startGame('parkour') and after a retry of a parkour         *)
(* session the level is: one start platform, 6 by 6 at (0, 2, 0); 20       *)
(* generated platforms, the i-th at height 2 + i * 1.25; one goal          *)
(* platform, 5 by 5, at x = z = 0, one step of 1.25 above the 20th.        *)
(* Heights rise strictly in insertion order and the goal is the only       *)
(* platform flagged as goal.                                               *)
(***************************************************************************)
LevelShaped ==
    /\ Len(parkourPlatforms) = 21
    /\ parkourPlatforms[1] =
          [position |-> Vec(0, 2000, 0),
           platformBounds |-> [width |-> 6000, depth |-> 6000],
           isGoal |-> FALSE]
    /\ \A i \in 1..20 :
          /\ parkourPlatforms[i + 1].position.y = 2000 + i * 1250
          /\ ~parkourPlatforms[i + 1].isGoal
    /\ goalPlatform # Null
    /\ goalPlatform =
          [position |-> Vec(0, parkourPlatforms[21].position.y + 1250, 0),
           platformBounds |-> [width |-> 5000, depth |-> 5000],
           isGoal |-> TRUE]
    /\ \A i \in 1..(Len(allPlatforms) - 1) :
          allPlatforms[i].position.y < allPlatforms[i + 1].position.y

LevelShape ==
    [][(startGame("parkour") \/ (gameMode = "parkour" /\ retryGame))
          => LevelShaped']_vars

\* a parkour session just started on the wider of the two spirals
StartedOnWideSpiral ==
    /\ Playing /\ gameMode = "parkour" /\ timeLeft = gameDuration
    /\ LevelShaped
    /\ goalPlatform.position = Vec(0, 28250, 0)
    /\ parkourPlatforms # GoalLevel.parkourPlatforms

(***************************************************************************)
(* C27.  The platforms are replaced as a whole and never accumulate:       *)
(* through parkour starts, retries, wins, timeouts and quits the level is  *)
(* either empty with no goal platform, or the 21 regular platforms and     *)
(* the goal platform of one generation; and no frame changes a platform.   *)
(***************************************************************************)
LevelWhole ==
    \/ parkourPlatforms = <<>> /\ goalPlatform = Null
    \/ /\ Len(parkourPlatforms) = 21 /\ goalPlatform # Null
       /\ [parkourPlatforms |-> parkourPlatforms,
           goalPlatform |-> goalPlatform] \in GeneratedLevels

LevelReplaced ==
    /\ []LevelWhole
    /\ [][\A delta \in GoalDeltas : animate(delta) => UNCHANGED levelVars]_vars

\* a session over by timeout, on a level generated after the first one
OverOnSecondLevel ==
    /\ GameOver /\ gameMode = "parkour" /\ timeLeft = 0
    /\ Len(parkourPlatforms) = 21 /\ goalPlatform # Null
    /\ parkourPlatforms # GoalLevel.parkourPlatforms

(***************************************************************************)
(* C28.  In tracking mode, a target that ends an update outside the box    *)
(* (x in [-8, 8], y in [1, 8], z in [-16, 0]) on an axis has, on that      *)
(* axis, a direction component that does not point further out: the        *)
(* update has turned it back toward the box.  The updates are the short    *)
(* ones, which leave the direction-change timer below its threshold, so    *)
(* that the direction at their end is the bounce's.                        *)
(***************************************************************************)
BounceTurnsBack ==
    [][\A delta \in TargetDeltas : \A r \in TargetDirDraws :
         (/\ targets[1].isActive
          /\ targets[1].changeDirTimer + delta <= 1000
          /\ TargetUpdated(delta, "tracking", r))
            => LET p == targets'[1].position
                   d == targets'[1].moveDirection
               IN  /\ p.x > 8000 => d.x <= 0
                   /\ p.x < -8000 => d.x >= 0
                   /\ p.y > 8000 => d.y <= 0
                   /\ p.y < 1000 => d.y >= 0
                   /\ p.z > 0 => d.z <= 0
                   /\ p.z < -16000 => d.z >= 0]_vars

(***************************************************************************)
(* C29.  With no movement key held, a frame leaves each horizontal         *)
(* component of the velocity no greater in magnitude than it was, and of   *)
(* the same sign or zero, whatever the frame's delta: the velocity decays  *)
(* toward zero and neither overshoots nor grows.                           *)
(***************************************************************************)
FrictionDecays ==
    [][\A delta \in WalkDeltas :
         (/\ Playing /\ isLocked /\ timeLeft - delta > 0
          /\ ~moveForward /\ ~moveBackward /\ ~moveLeft /\ ~moveRight
          /\ animate(delta))
            => /\ velocity.x >= 0 => (0 <= velocity'.x /\ velocity'.x <= velocity.x)
               /\ velocity.x <= 0 => (velocity.x <= velocity'.x /\ velocity'.x <= 0)
               /\ velocity.z >= 0 => (0 <= velocity'.z /\ velocity'.z <= velocity.z)
               /\ velocity.z <= 0 => (velocity.z <= velocity'.z /\ velocity'.z <= 0)]_vars

\* the squared length of a direction, of 1.0 within a rounding of the
\* thousandths
unitLength(d) ==
    LET sq == d.x * d.x + d.y * d.y + d.z * d.z
    IN  sq >= 990000 /\ sq <= 1010000

(***************************************************************************)
(* C30.  The movement direction of an active target has unit length after  *)
(* its spawn and after every update in tracking mode, the updates that     *)
(* blend it half way toward a new random unit vector and renormalize it    *)
(* included, whatever the new vector (the opposite of the direction too).  *)
(***************************************************************************)
DirectionUnit ==
    /\ [][\A position \in TargetPositions : \A r \in TargetDirDraws :
            TargetSpawn(position, r)
               => unitLength(targets'[1].moveDirection)]_vars
    /\ [][\A delta \in TargetDeltas : \A r \in TargetDirDraws :
            (/\ targets[1].isActive
             /\ unitLength(targets[1].moveDirection)
             /\ TargetUpdated(delta, "tracking", r))
               => unitLength(targets'[1].moveDirection)]_vars

(***************************************************************************)
(* C31.  shotsHit <= shotsFired in every state, through any sequence of    *)
(* sessions, fire actions and frames in any mode.                          *)
(***************************************************************************)
HitsWithinShots == shotsHit <= shotsFired

\* a static session whose one shot hit
EveryShotHit ==
    /\ Playing /\ gameMode = "static" /\ isLocked
    /\ shotsFired = 1 /\ shotsHit = 1

(***************************************************************************)
(* C32.  While the mode is static the score is 100 times shotsHit in       *)
(* every state; while it is tracking or parkour shotsHit stays 0,          *)
(* whatever is fired at.                                                   *)
(***************************************************************************)
ScoreOfHits ==
    /\ gameMode = "static" => score = 100 * shotsHit
    /\ gameMode \in {"tracking", "parkour"} => shotsHit = 0

\* a tracking session in which a shot was fired and the tracking score rose
FiredWhileTracking ==
    /\ gameMode = "tracking" /\ isPlaying
    /\ shotsFired = 1 /\ shotsHit = 0 /\ score > 0

(***************************************************************************)
(* C33.  In a static or tracking session exactly one target is active in   *)
(* every state, and through any sequence of sessions, hits and resets the  *)
(* pool never holds more than one Target: the one a hit or a reset         *)
(* deactivates is the one the spawn that follows reactivates.              *)
(***************************************************************************)
OneTargetActive ==
    /\ Len(targets) <= 1
    /\ (gameMode \in TimedModes /\ isPlaying)
          => (Len(targets) = 1 /\ targets[1].isActive)

\* a static session paused after a hit: the pool holds the one target, active
\* again
HitAfterRestart ==
    /\ gameMode = "static" /\ Paused
    /\ shotsHit = 1 /\ Len(targets) = 1 /\ targets[1].isActive

(***************************************************************************)
(* C34.  In a generated level the landing bands [platformTop - 1.0,        *)
(* platformTop] of any two platforms (start, generated, goal) are          *)
(* disjoint, their heights being 1.25 apart; so in any frame at most one   *)
(* platform satisfies the landing conditions, and the order of the scan    *)
(* never decides which platform the player lands on.                       *)
(***************************************************************************)
BandsDisjoint ==
    /\ [](\A i, j \in 1..Len(allPlatforms) :
             i # j => \/ topOf(i) < topOf(j) - 1000
                      \/ topOf(j) < topOf(i) - 1000)
    /\ [][\A delta \in WalkDeltas : \A yaw \in Yaws :
            (gameMode = "parkour" /\ Playing /\ isLocked
               /\ timeLeft - delta > 0 /\ animate(delta))
               => LET v == acceleratedVelocity(delta)
                      p == movedPosition(v, delta, yaw)
                  IN  Cardinality(matchingPlatforms(p, v.y)) <= 1]_vars

\* a player two frames into a session, landed on a platform of a full level
LandedTwice ==
    /\ Playing /\ gameMode = "parkour" /\ isLocked
    /\ Len(allPlatforms) = 22
    /\ frames = 2 /\ Resting /\ canJump /\ velocity.y = 0

(***************************************************************************)
(* C35.  The unlock signal that endGame and winParkour cause by releasing  *)
(* the input lock never pauses the session.  The step into game-over       *)
(* leaves the session not playing and not paused, with the lock as it      *)
(* was; the unlock signal delivered after it finds isPlaying cleared and   *)
(* isGameOver set, and leaves the session over and unpaused.               *)
(***************************************************************************)
UnlockAfterEnd ==
    /\ [][(~isGameOver /\ isGameOver')
             => (GameOver' /\ isLocked' = isLocked)]_vars
    /\ [][(isGameOver /\ onUnlock)
             => (GameOver' /\ ~isPaused' /\ ~isLocked')]_vars

\* a won session after the unlock signal of winParkour
WonAndUnlocked ==
    /\ GameOver /\ OnGoal /\ gameMode = "parkour"
    /\ ~isLocked /\ ~lockRequested /\ timeLeft > 0

(***************************************************************************)
(* C36.  In a session that is playing and not paused every frame takes     *)
(* its delta off timeLeft (down to 0), the input lock held or not, in      *)
(* every mode; the player, the targets and the score advance only in       *)
(* frames with the lock held.  A session whose lock is never granted so    *)
(* runs down to game-over by timeout with player, targets and score as     *)
(* the start left them.                                                    *)
(***************************************************************************)
TimerWithoutLock ==
    [][\A delta \in Deltas :
         (Playing /\ animate(delta))
            => /\ timeLeft' = IF timeLeft - delta <= 0 THEN 0
                              ELSE timeLeft - delta
               /\ ~isLocked => UNCHANGED <<playerVars, targets, score>>]_vars

\* a session timed out with the lock startGame asked for never granted
TimedOutUnlocked ==
    /\ GameOver /\ timeLeft = 0
    /\ ~isLocked /\ lockRequested
    /\ score = 0 /\ velocity = Vec(0, 0, 0)
    /\ cameraPosition \in {ArenaSpawn, ParkourSpawn}

(***************************************************************************)
(* C37.  In tracking mode a target spawned by spawnTarget lies, at the end *)
(* of every update, within the box x in [-8, 8], y in [1, 8], z in         *)
(* [-16, 0] enlarged on each side by the distance the update could move    *)
(* it (its speed of 2 times delta); its z so stays at most one step        *)
(* behind the player's plane.                                              *)
(***************************************************************************)
WithinBoxAndStep ==
    [][\A delta \in TargetDeltas : \A r \in TargetDirDraws :
         (targets[1].isActive /\ TargetUpdated(delta, "tracking", r))
            => LET p == targets'[1].position
                   travelled == MoveSpeed * delta
               IN  /\ p.x >= -8000 - travelled /\ p.x <= 8000 + travelled
                   /\ p.y >= 1000 - travelled /\ p.y <= 8000 + travelled
                   /\ p.z >= -16000 - travelled /\ p.z <= travelled]_vars

=============================================================================
